---- MODULE Spec2Model ----
(***************************************************************************)
(* The RunPod serverless handler of Wan2.2-S2V-14B (src/handler.py): one   *)
(* worker receives a job, validates it, stages the base64 payloads in a    *)
(* temporary directory, builds the argument vector of generate.py, runs it *)
(* under a 600 s deadline, collects the first *.mp4 of the directory and   *)
(* returns it base64-encoded.  The external program, the file system and   *)
(* the clock are the environment.                                          *)
(***************************************************************************)
EXTENDS Integers, Sequences, FiniteSets, TLC

(***************************************************************************)
(* Bounds of the model.                                                    *)
(***************************************************************************)
\* invocations of handler() one worker serves in a behaviour
MaxInvocations == 2
\* processes the external program may leave running besides itself
MaxDescendants == 1
\* seconds the model's clock advances in one step
TickSeconds == 300

(***************************************************************************)
(* Text.  A Python str is a sequence of chunks whose concatenation it is;  *)
(* payloads are written one character per chunk, fixed literals (flags,    *)
(* messages, file-name parts) as one chunk.                                *)
(***************************************************************************)
RECURSIVE StartsAt(_, _, _)
StartsAt(s, pre, i) ==
    IF pre = <<>> THEN TRUE
    ELSE /\ i <= Len(s)
         /\ s[i] = Head(pre)
         /\ StartsAt(s, Tail(pre), i + 1)

\* str.startswith(pre)
StartsWith(s, pre) == StartsAt(s, pre, 1)

\* pre in s
Contains(s, pre) == \E i \in 1..(Len(s) + 1) : StartsAt(s, pre, i)

\* s.split(",", 1): the index of the first comma, 0 when there is none
FirstComma(s) ==
    IF \E i \in 1..Len(s) : s[i] = ","
    THEN CHOOSE i \in 1..Len(s) : s[i] = "," /\ \A j \in 1..(i - 1) : s[j] # ","
    ELSE 0

Digit(d) == <<"0", "1", "2", "3", "4", "5", "6", "7", "8", "9">>[d + 1]

RECURSIVE NatToStr(_)
NatToStr(n) == IF n < 10 THEN <<Digit(n)>> ELSE NatToStr(n \div 10) \o <<Digit(n % 10)>>

\* str(n) of a Python int
IntToStr(n) == IF n < 0 THEN <<"-">> \o NatToStr(0 - n) ELSE NatToStr(n)

(***************************************************************************)
(* base64 (the standard library codec, as CPython's binascii computes it). *)
(***************************************************************************)
B64Alphabet ==
    << "A", "B", "C", "D", "E", "F", "G", "H", "I", "J", "K", "L", "M",
       "N", "O", "P", "Q", "R", "S", "T", "U", "V", "W", "X", "Y", "Z",
       "a", "b", "c", "d", "e", "f", "g", "h", "i", "j", "k", "l", "m",
       "n", "o", "p", "q", "r", "s", "t", "u", "v", "w", "x", "y", "z",
       "0", "1", "2", "3", "4", "5", "6", "7", "8", "9", "+", "/" >>

IsB64Char(c) == \E i \in 1..64 : B64Alphabet[i] = c

B64Value(c) == (CHOOSE i \in 1..64 : B64Alphabet[i] = c) - 1

\* binascii.a2b_base64, non-strict: characters outside the alphabet are
\* skipped, a completed pad ends the input, a dangling quad is an error.
\* st = [q: position in the quad, left: pending bits, pads, out: bytes]
RECURSIVE A2B(_, _, _)
A2B(s, i, st) ==
    IF i > Len(s)
    THEN IF st.q # 0 THEN [ok |-> FALSE, bytes |-> <<>>] ELSE [ok |-> TRUE, bytes |-> st.out]
    ELSE IF s[i] = "="
    THEN IF st.q >= 2 /\ st.q + st.pads + 1 >= 4
         THEN [ok |-> TRUE, bytes |-> st.out]
         ELSE A2B(s, i + 1, IF st.q >= 2 THEN [st EXCEPT !.pads = @ + 1] ELSE st)
    ELSE IF ~IsB64Char(s[i])
    THEN A2B(s, i + 1, st)
    ELSE LET v == B64Value(s[i]) IN
         CASE st.q = 0 -> A2B(s, i + 1, [q |-> 1, left |-> v, pads |-> 0, out |-> st.out])
           [] st.q = 1 -> A2B(s, i + 1, [q |-> 2, left |-> v % 16, pads |-> 0,
                                         out |-> Append(st.out, st.left * 4 + v \div 16)])
           [] st.q = 2 -> A2B(s, i + 1, [q |-> 3, left |-> v % 4, pads |-> 0,
                                         out |-> Append(st.out, st.left * 16 + v \div 4)])
           [] st.q = 3 -> A2B(s, i + 1, [q |-> 0, left |-> 0, pads |-> 0,
                                         out |-> Append(st.out, st.left * 64 + v)])

\* base64.b64decode(s): [ok, bytes]; ok = FALSE is binascii.Error
b64decode(s) == A2B(s, 1, [q |-> 0, left |-> 0, pads |-> 0, out |-> <<>>])

\* base64.b64encode(b).decode("utf-8")
RECURSIVE b64encode(_)
b64encode(b) ==
    LET C(v) == B64Alphabet[v + 1] IN
    CASE Len(b) = 0 -> <<>>
      [] Len(b) = 1 -> <<C(b[1] \div 4), C((b[1] % 4) * 16), "=", "=">>
      [] Len(b) = 2 -> <<C(b[1] \div 4), C((b[1] % 4) * 16 + b[2] \div 16),
                         C((b[2] % 16) * 4), "=">>
      [] OTHER -> <<C(b[1] \div 4), C((b[1] % 4) * 16 + b[2] \div 16),
                    C((b[2] % 16) * 4 + b[3] \div 64), C(b[3] % 64)>>
                  \o b64encode(SubSeq(b, 4, Len(b)))

(***************************************************************************)
(* Python values of a job payload: a str, an int, a float, None, or a key  *)
(* that is absent from the mapping.                                        *)
(***************************************************************************)
Str(s) == [t |-> "str", s |-> s, n |-> 0]
PyInt(n) == [t |-> "int", s |-> <<>>, n |-> n]
PyFloat(n) == [t |-> "float", s |-> <<>>, n |-> n]
None == [t |-> "none", s |-> <<>>, n |-> 0]
Absent == [t |-> "absent", s |-> <<>>, n |-> 0]

\* dict.get(key, default)
Get(v, default) == IF v = Absent THEN default ELSE v

\* bool(v)
Truthy(v) ==
    CASE v.t = "str" -> v.s # <<>>
      [] v.t \in {"int", "float"} -> v.n # 0
      [] OTHER -> FALSE

\* str(v)
PyStr(v) ==
    CASE v.t = "str" -> v.s
      [] v.t = "int" -> IntToStr(v.n)
      [] v.t = "float" -> IntToStr(v.n) \o <<".", "0">>
      [] OTHER -> <<"None">>

(***************************************************************************)
(* Process-wide configuration (src/handler.py 17-21) and the deadline.     *)
(***************************************************************************)
MODEL_DIR == Str(<<"/models/Wan2.2-S2V-14B">>)
DEFAULT_SIZE == Str(<<"832*480">>)
DEFAULT_STEPS == 30
TIMEOUT == 600

(***************************************************************************)
(* The payloads a job is drawn from.                                       *)
(***************************************************************************)
DataPrefix == <<"d", "a", "t", "a", ":">>
Base64Sep == <<";", "b", "a", "s", "e", "6", "4", ",">>
ImagePrefix == <<"i", "m", "a", "g", "e", "/">>
AudioPrefix == <<"a", "u", "d", "i", "o", "/">>
VideoPrefix == <<"v", "i", "d", "e", "o", "/">>
DataUri(mime, body) == DataPrefix \o mime \o Base64Sep \o body

ImageBytes == <<255, 216, 7>>
AudioBytes == <<82, 73>>
PoseBytes == <<0, 24, 102, 116>>
\* two data characters and no pad: binascii.Error, Incorrect padding
BadBase64 == <<"T", "Q">>

ImagePayloads ==
    { Absent, PyInt(7),
      Str(b64encode(ImageBytes)),
      Str(BadBase64),
      Str(DataUri(ImagePrefix \o <<"j", "p", "e", "g">>, b64encode(ImageBytes))),
      Str(DataUri(ImagePrefix \o <<"p", "n", "g">>, b64encode(ImageBytes))),
      Str(DataUri(ImagePrefix \o <<"w", "e", "b", "p">>, b64encode(ImageBytes))),
      \* a data URI with no comma
      Str(DataPrefix \o ImagePrefix \o <<"p", "n", "g">>) }

AudioPayloads ==
    { Absent, PyInt(7),
      Str(b64encode(AudioBytes)),
      Str(BadBase64),
      Str(DataUri(AudioPrefix \o <<"w", "a", "v">>, b64encode(AudioBytes))),
      Str(DataUri(AudioPrefix \o <<"m", "p", "3">>, b64encode(AudioBytes))),
      Str(DataUri(AudioPrefix \o <<"m", "p", "e", "g">>, b64encode(AudioBytes))),
      \* no header, and the base64 text itself holds "audio/mp3"
      Str(AudioPrefix \o <<"m", "p", "3">> \o <<"T", "Q", "=">>) }

PosePayloads ==
    { Absent, Str(<<>>), PyInt(3),
      Str(BadBase64),
      Str(DataUri(VideoPrefix \o <<"m", "p", "4">>, b64encode(PoseBytes))) }

SeedValues == { Absent, PyInt(-1), PyInt(-7), PyInt(0), PyInt(42), Str(<<"4", "2">>) }
PromptValues == { Absent, Str(<<"a person talking">>) }
NegativePromptValues == { Absent, Str(<<>>) }
SizeValues == { Absent, PyInt(480) }
StepsValues == { Absent, PyInt(10) }

\* job: shape says what handler() is handed: "ok" is {"input": {...}},
\* "inputlist" is {"input": [...]}, "noinput" is {}, "notdict" is no mapping
InputOf(image, audio, pose, seed, prompt, neg, size, steps) ==
    [ image_base64 |-> image, audio_base64 |-> audio, pose_video_base64 |-> pose,
      seed |-> seed, prompt |-> prompt, negative_prompt |-> neg, size |-> size,
      steps |-> steps, cfg |-> Absent ]

EmptyInput == InputOf(Absent, Absent, Absent, Absent, Absent, Absent, Absent, Absent)

\* The payload fields and the parameter fields are read by different
\* statements of handler(): the jobs vary the three payloads with default
\* parameters, and the parameters with plain payloads, with and without a
\* pose video.
Jobs ==
    { [shape |-> s, input |-> EmptyInput] : s \in {"notdict", "noinput", "inputlist"} }
    \cup
    { [shape |-> "ok", input |-> InputOf(i, a, v, Absent, Absent, Absent, Absent, Absent)] :
        i \in ImagePayloads, a \in AudioPayloads, v \in PosePayloads }
    \cup
    { [shape |-> "ok",
       input |-> InputOf(Str(b64encode(ImageBytes)), Str(b64encode(AudioBytes)), v,
                         sd, pr, ng, sz, st)] :
        v \in {Absent, Str(DataUri(VideoPrefix \o <<"m", "p", "4">>, b64encode(PoseBytes)))},
        sd \in SeedValues, pr \in PromptValues, ng \in NegativePromptValues,
        sz \in SizeValues, st \in StepsValues }

\* The jobs two concurrent invocations are drawn from: one failing decode
\* for each payload, and a valid job without and with a pose video.
PlainJob(i, a, v) ==
    [shape |-> "ok", input |-> InputOf(i, a, v, Absent, Absent, Absent, Absent, Absent)]

ConcJobs ==
    { PlainJob(Str(BadBase64), Str(b64encode(AudioBytes)), Absent),
      PlainJob(Str(b64encode(ImageBytes)), Str(BadBase64), Absent),
      PlainJob(Str(b64encode(ImageBytes)), Str(b64encode(AudioBytes)), Str(BadBase64)),
      PlainJob(Str(b64encode(ImageBytes)), Str(b64encode(AudioBytes)), Absent),
      PlainJob(Str(b64encode(ImageBytes)), Str(b64encode(AudioBytes)),
               Str(DataUri(VideoPrefix \o <<"m", "p", "4">>, b64encode(PoseBytes)))) }

(***************************************************************************)
(* State.                                                                  *)
(***************************************************************************)
\* the workers of the platform; Spec runs the first alone, SpecConc both
Workers == {"w1", "w2"}
SoloWorkers == {"w1"}
TempNames == {"tmpa", "tmpb"}
NoDir == "-"

VARIABLES
    frame,          \* per worker: the handler's frame (pc and locals)
    dirs,           \* the temporary directories that exist
    files,          \* the files that exist: [dir, name, data, readable]
    proc,           \* per worker: the external program of the job
    OFFLOAD_MODEL,  \* src/handler.py 21, read once at start
    served          \* invocations started so far

vars == <<frame, dirs, files, proc, OFFLOAD_MODEL, served>>

NoResult == <<>>
\* state: none, running, exited (on its own) or killed; wrote: the names
\* of the files the program has written
NoProc == [state |-> "none", returncode |-> 0, stdout |-> "", stderr |-> "",
           elapsed |-> 0, descendants |-> 0, wrote |-> {}]

IdleFrame ==
    [ pc |-> "idle", job |-> [shape |-> "noinput", input |-> EmptyInput],
      temp_dir |-> NoDir, pose_path |-> None, cmd |-> <<>>,
      result |-> [returncode |-> 0, stdout |-> "", stderr |-> ""],
      output_video |-> <<>>,
      pending |-> [kind |-> "none", value |-> NoResult],
      ret |-> NoResult,
      \* history of this invocation; listing: what the directory held
      \* when it was searched
      staged |-> {}, launches |-> 0, collected |-> FALSE, listing |-> {} ]

Init ==
    /\ frame = [p \in Workers |-> IdleFrame]
    /\ dirs = {}
    /\ files = {}
    /\ proc = [p \in Workers |-> NoProc]
    /\ OFFLOAD_MODEL \in BOOLEAN
    /\ served = 0

(***************************************************************************)
(* The locals of handler() that are read off the job (lines 71-79, 85-100).*)
(***************************************************************************)
image_b64(f) == f.job.input.image_base64
audio_b64(f) == f.job.input.audio_base64
prompt(f) == Get(f.job.input.prompt, Str(<<>>))
negative_prompt(f) == Get(f.job.input.negative_prompt, Str(<<"blurry, low quality, distorted">>))
size(f) == Get(f.job.input.size, DEFAULT_SIZE)
steps(f) == Get(f.job.input.steps, PyInt(DEFAULT_STEPS))
cfg(f) == Get(f.job.input.cfg, PyFloat(5))
seed(f) == Get(f.job.input.seed, PyInt(-1))
pose_video_b64(f) == Get(f.job.input.pose_video_base64, None)

image_ext(f) ==
    IF StartsWith(image_b64(f).s, DataPrefix \o ImagePrefix \o <<"p", "n", "g">>) THEN ".png"
    ELSE IF StartsWith(image_b64(f).s, DataPrefix \o ImagePrefix \o <<"w", "e", "b", "p">>) THEN ".webp"
    ELSE ".jpg"

audio_ext(f) ==
    IF \/ Contains(audio_b64(f).s, AudioPrefix \o <<"m", "p", "3">>)
       \/ Contains(audio_b64(f).s, AudioPrefix \o <<"m", "p", "e", "g">>)
    THEN ".mp3"
    ELSE ".wav"

\* a path is [dir, name]; a name is <<stem, extension>>
image_path(f) == [dir |-> f.temp_dir, name |-> <<"input", image_ext(f)>>]
\* variant: the audio goes to the path of the image
audio_path_SameAsImage(f) == image_path(f)

audio_path(f) == [dir |-> f.temp_dir, name |-> <<"input", audio_ext(f)>>]
output_path(f) == [dir |-> f.temp_dir, name |-> <<"output", ".mp4">>]
PosePath(f) == [dir |-> f.temp_dir, name |-> <<"pose", ".mp4">>]

\* str(path)
PathStr(path) == Str(<<"/tmp/", path.dir, "/">> \o path.name)

(***************************************************************************)
(* Results and the ways out of handler().                                  *)
(***************************************************************************)
\* variant: the message under a key that is not part of the result shape
ErrorResult_WrongKey(msg, detail) == [message |-> <<msg, detail>>]

\* an error message is <<fixed text, interpolated text>>
ErrorResult(msg, detail) == [error |-> <<msg, detail>>]

\* return / raise before the with block: nothing to clean up
ReturnNow(f, value) == [f EXCEPT !.pc = "returned", !.ret = value]
RaiseNow(f, exc) == [f EXCEPT !.pc = "raised", !.ret = [exception |-> exc]]

\* return / raise inside the with block: TemporaryDirectory.__exit__ runs first
Return(f, value) == [f EXCEPT !.pc = "cleanup", !.pending = [kind |-> "return", value |-> value]]
Raise(f, exc) == [f EXCEPT !.pc = "cleanup", !.pending = [kind |-> "raise", value |-> [exception |-> exc]]]

(***************************************************************************)
(* handler(): validation (lines 60-79).                                    *)
(***************************************************************************)
\* runpod.serverless.start (line 197): the platform calls handler(job)
InvokeFrom(p, jobs) ==
    /\ frame[p].pc = "idle"
    /\ served < MaxInvocations
    /\ \E j \in jobs : frame' = [frame EXCEPT ![p] = [IdleFrame EXCEPT !.pc = "validate", !.job = j]]
    /\ served' = served + 1
    /\ UNCHANGED <<dirs, files, proc, OFFLOAD_MODEL>>

Invoke(p) == InvokeFrom(p, Jobs)

InvokeConc(p) == InvokeFrom(p, ConcJobs)

\* the platform takes what handler() returned or raised; the worker is free
\* for the next job, which has no process of its own yet
Deliver(p) ==
    /\ frame[p].pc \in {"returned", "raised"}
    /\ frame' = [frame EXCEPT ![p] = IdleFrame]
    /\ proc' = [proc EXCEPT ![p] = NoProc]
    /\ UNCHANGED <<dirs, files, OFFLOAD_MODEL, served>>

\* variant: the audio field is not checked
Validated_NoAudioCheck(f) ==
    IF f.job.shape = "notdict" THEN RaiseNow(f, "AttributeError")
    ELSE IF f.job.shape # "ok"
    THEN ReturnNow(f, ErrorResult("Invalid request: missing 'input' field", ""))
    ELSE IF image_b64(f) = Absent
    THEN ReturnNow(f, ErrorResult("Missing required field: image_base64", ""))
    ELSE [f EXCEPT !.pc = "mkdtemp"]

Validated(f) ==
    IF f.job.shape = "notdict" THEN RaiseNow(f, "AttributeError")
    ELSE IF f.job.shape # "ok"
    THEN ReturnNow(f, ErrorResult("Invalid request: missing 'input' field", ""))
    ELSE IF image_b64(f) = Absent
    THEN ReturnNow(f, ErrorResult("Missing required field: image_base64", ""))
    ELSE IF audio_b64(f) = Absent
    THEN ReturnNow(f, ErrorResult("Missing required field: audio_base64", ""))
    ELSE [f EXCEPT !.pc = "mkdtemp"]

Validate(p) ==
    /\ frame[p].pc = "validate"
    /\ frame' = [frame EXCEPT ![p] = Validated(@)]
    /\ UNCHANGED <<dirs, files, proc, OFFLOAD_MODEL, served>>

(***************************************************************************)
(* The scratch directory (line 82) and the staging of the inputs.          *)
(***************************************************************************)
\* variant: the name is not checked against the directories that exist
mkdtemp_AnyName(ds) == TempNames

\* tempfile.mkdtemp: the names it may give, those no existing directory has
mkdtemp(ds) == TempNames \ ds

MakeTempDir(p) ==
    /\ frame[p].pc = "mkdtemp"
    /\ \E d \in mkdtemp(dirs) :
          /\ dirs' = dirs \cup {d}
          /\ frame' = [frame EXCEPT ![p] = [@ EXCEPT !.pc = "detect", !.temp_dir = d]]
    /\ UNCHANGED <<files, proc, OFFLOAD_MODEL, served>>

\* lines 85-100: str.startswith and the in operator on a payload that is no str
Detected(f) ==
    IF image_b64(f).t # "str" THEN Raise(f, "AttributeError")
    ELSE IF audio_b64(f).t # "str" THEN Raise(f, "TypeError")
    ELSE [f EXCEPT !.pc = "save_image"]

DetectFormats(p) ==
    /\ frame[p].pc = "detect"
    /\ frame' = [frame EXCEPT ![p] = Detected(@)]
    /\ UNCHANGED <<dirs, files, proc, OFFLOAD_MODEL, served>>

\* save_base64_to_file, up to the write: [ok, exc, decoded]
save_base64_to_file(b64_data) ==
    IF b64_data.t # "str"
    THEN [ok |-> FALSE, exc |-> "AttributeError", decoded |-> <<>>]
    ELSE LET uri == StartsWith(b64_data.s, DataPrefix)
             c == FirstComma(b64_data.s)
         IN  IF uri /\ c = 0
             THEN [ok |-> FALSE, exc |-> "IndexError", decoded |-> <<>>]
             ELSE LET d == b64decode(IF uri THEN SubSeq(b64_data.s, c + 1, Len(b64_data.s))
                                            ELSE b64_data.s)
                  IN  IF d.ok THEN [ok |-> TRUE, exc |-> "", decoded |-> d.bytes]
                      ELSE [ok |-> FALSE, exc |-> "binascii.Error", decoded |-> <<>>]

\* open(path, "wb").write(data)
WriteFile(fs, path, data) ==
    { g \in fs : ~(g.dir = path.dir /\ g.name = path.name) }
    \cup { [dir |-> path.dir, name |-> path.name, data |-> data, isdir |-> FALSE] }

\* variant: a failed save is passed over and the handler goes on
Save_IgnoresFailure(p, b64_data, path, next, msg) ==
    LET r == save_base64_to_file(b64_data) IN
    IF r.ok
    THEN /\ files' = WriteFile(files, path, r.decoded)
         /\ frame' = [frame EXCEPT ![p] = [@ EXCEPT !.pc = next,
                                                    !.staged = @ \cup {path.name}]]
    ELSE /\ files' = files
         /\ frame' = [frame EXCEPT ![p] = [@ EXCEPT !.pc = next]]

\* one save inside a try block: on success the file exists and the handler
\* goes on at pc next, on an exception it returns the error msg
Save(p, b64_data, path, next, msg) ==
    LET r == save_base64_to_file(b64_data) IN
    IF r.ok
    THEN /\ files' = WriteFile(files, path, r.decoded)
         /\ frame' = [frame EXCEPT ![p] = [@ EXCEPT !.pc = next,
                                                    !.staged = @ \cup {path.name}]]
    ELSE /\ files' = files
         /\ frame' = [frame EXCEPT ![p] = Return(@, ErrorResult(msg, r.exc))]

\* line 103
StageImage(p) ==
    /\ frame[p].pc = "save_image"
    /\ Save(p, image_b64(frame[p]), image_path(frame[p]), "save_audio", "Failed to decode input: ")
    /\ UNCHANGED <<dirs, proc, OFFLOAD_MODEL, served>>

\* line 104
StageAudio(p) ==
    /\ frame[p].pc = "save_audio"
    /\ Save(p, audio_b64(frame[p]), audio_path(frame[p]), "save_pose", "Failed to decode input: ")
    /\ UNCHANGED <<dirs, proc, OFFLOAD_MODEL, served>>

\* lines 109-115
StagePose(p) ==
    /\ frame[p].pc = "save_pose"
    /\ IF Truthy(pose_video_b64(frame[p]))
       THEN LET r == save_base64_to_file(pose_video_b64(frame[p])) IN
            IF r.ok
            THEN /\ files' = WriteFile(files, PosePath(frame[p]), r.decoded)
                 /\ frame' = [frame EXCEPT ![p] =
                        [@ EXCEPT !.pc = "build", !.pose_path = PathStr(PosePath(frame[p])),
                                  !.staged = @ \cup {PosePath(frame[p]).name}]]
            ELSE /\ files' = files
                 /\ frame' = [frame EXCEPT ![p] =
                        Return(@, ErrorResult("Failed to decode pose video: ", r.exc))]
       ELSE /\ files' = files
            /\ frame' = [frame EXCEPT ![p] = [@ EXCEPT !.pc = "build"]]
    /\ UNCHANGED <<dirs, proc, OFFLOAD_MODEL, served>>

(***************************************************************************)
(* The command (lines 118-143).                                            *)
(***************************************************************************)
Flag(name) == Str(<<name>>)

\* variant: the seed is passed whatever its value
SeedArgs_Always(sd) == <<Flag("--seed"), Str(PyStr(sd))>>

SeedArgs(sd) == IF sd.n >= 0 THEN <<Flag("--seed"), Str(PyStr(sd))>> ELSE <<>>

\* variant: the flag is passed whatever the configuration says
OffloadArgs_Always(offload) == <<Flag("--offload_model"), Str(<<"True">>)>>

\* lines 139-140
OffloadArgs(offload) == IF offload THEN <<Flag("--offload_model"), Str(<<"True">>)>> ELSE <<>>

\* lines 142-143
PoseArgs(pose_path) == IF Truthy(pose_path) THEN <<Flag("--pose_video"), pose_path>> ELSE <<>>

Command(f, offload) ==
    << Str(<<"python">>), Str(<<"generate.py">>),
       Flag("--task"), Str(<<"s2v-14B">>),
       Flag("--size"), size(f),
       Flag("--ckpt_dir"), MODEL_DIR,
       Flag("--image"), PathStr(image_path(f)),
       Flag("--audio"), PathStr(audio_path(f)),
       Flag("--output_dir"), Str(<<"/tmp/", f.temp_dir>>),
       Flag("--sample_steps"), Str(PyStr(steps(f))),
       Flag("--cfg_scale"), Str(PyStr(cfg(f))) >>
    \o (IF Truthy(prompt(f)) THEN <<Flag("--prompt"), prompt(f)>> ELSE <<>>)
    \o (IF Truthy(negative_prompt(f)) THEN <<Flag("--negative_prompt"), negative_prompt(f)>> ELSE <<>>)
    \o SeedArgs(seed(f))
    \o OffloadArgs(offload)
    \o PoseArgs(f.pose_path)

\* seed >= 0 raises TypeError when seed is a str or None (line 136)
BuildCommand(p) ==
    /\ frame[p].pc = "build"
    /\ frame' = [frame EXCEPT ![p] =
          IF seed(frame[p]).t \notin {"int", "float"} THEN Raise(frame[p], "TypeError")
          ELSE [frame[p] EXCEPT !.pc = "run", !.cmd = Command(frame[p], OFFLOAD_MODEL)]]
    /\ UNCHANGED <<dirs, files, proc, OFFLOAD_MODEL, served>>

(***************************************************************************)
(* subprocess.run(cmd, capture_output=True, text=True, timeout=600,        *)
(* cwd="/app") and the external program (lines 146-163).                   *)
(***************************************************************************)
\* what generate.py may leave in --output_dir: a video, and something that
\* is named like one but cannot be read as a file (a directory)
ProgramFiles ==
    { [name |-> <<"output", ".mp4">>, data |-> <<0, 0, 0, 32, 102, 116, 121, 112>>, isdir |-> FALSE],
      [name |-> <<"frames", ".mp4">>, data |-> <<>>, isdir |-> TRUE] }

\* how generate.py may end: exit code and what it wrote to its two pipes
ProgramOutcomes ==
    { [returncode |-> 0, stdout |-> "saved", stderr |-> "warning"],
      \* the interpreter cannot open generate.py
      [returncode |-> 1, stdout |-> "", stderr |-> "No such file or directory"] }

\* Popen cannot start the child: /app or the interpreter is missing (OSError)
LaunchFails(p) ==
    /\ frame[p].pc = "run"
    /\ frame' = [frame EXCEPT ![p] =
          Return(@, ErrorResult("Generation failed: ", "No such file or directory"))]
    /\ UNCHANGED <<dirs, files, proc, OFFLOAD_MODEL, served>>

\* Popen: an argument that is no str is a TypeError, else the child runs
Launch(p) ==
    /\ frame[p].pc = "run"
    /\ IF \E i \in 1..Len(frame[p].cmd) : frame[p].cmd[i].t # "str"
       THEN /\ frame' = [frame EXCEPT ![p] =
                   Return(@, ErrorResult("Generation failed: ", "TypeError"))]
            /\ proc' = proc
       ELSE /\ frame' = [frame EXCEPT ![p] = [@ EXCEPT !.pc = "wait", !.launches = @ + 1]]
            /\ proc' = [proc EXCEPT ![p] = [NoProc EXCEPT !.state = "running"]]
    /\ UNCHANGED <<dirs, files, OFFLOAD_MODEL, served>>

\* the program writes a file into the output directory
ProgramWrites(p) ==
    /\ proc[p].state = "running"
    /\ \E g \in ProgramFiles :
          /\ \A h \in files : ~(h.dir = frame[p].temp_dir /\ h.name = g.name)
          /\ files' = files \cup {[dir |-> frame[p].temp_dir, name |-> g.name,
                                   data |-> g.data, isdir |-> g.isdir]}
          /\ proc' = [proc EXCEPT ![p].wrote = @ \cup {g.name}]
    /\ UNCHANGED <<frame, dirs, OFFLOAD_MODEL, served>>

\* the program starts a process of its own (a worker, a codec)
ProgramSpawns(p) ==
    /\ proc[p].state = "running"
    /\ proc[p].descendants < MaxDescendants
    /\ proc' = [proc EXCEPT ![p].descendants = @ + 1]
    /\ UNCHANGED <<frame, dirs, files, OFFLOAD_MODEL, served>>

\* a process the program started ends on its own
DescendantExits(p) ==
    /\ proc[p].descendants > 0
    /\ proc' = [proc EXCEPT ![p].descendants = @ - 1]
    /\ UNCHANGED <<frame, dirs, files, OFFLOAD_MODEL, served>>

\* time passes while the program runs
Tick(p) ==
    /\ proc[p].state = "running"
    /\ proc[p].elapsed < TIMEOUT
    /\ proc' = [proc EXCEPT ![p].elapsed = @ + TickSeconds]
    /\ UNCHANGED <<frame, dirs, files, OFFLOAD_MODEL, served>>

\* the program exits before the deadline
ProgramExits(p) ==
    /\ proc[p].state = "running"
    /\ proc[p].elapsed < TIMEOUT
    /\ \E o \in ProgramOutcomes :
          proc' = [proc EXCEPT ![p] = [@ EXCEPT !.state = "exited", !.returncode = o.returncode,
                                                !.stdout = o.stdout, !.stderr = o.stderr]]
    /\ UNCHANGED <<frame, dirs, files, OFFLOAD_MODEL, served>>

\* variant: the exit code is not looked at
RunReturned_IgnoresExitCode(f, pr) ==
    [f EXCEPT !.pc = "glob",
              !.result = [returncode |-> pr.returncode, stdout |-> pr.stdout, stderr |-> pr.stderr]]

\* variant: after a non-zero exit the program is run again
RunReturned_Retries(f, pr) ==
    LET result == [returncode |-> pr.returncode, stdout |-> pr.stdout, stderr |-> pr.stderr] IN
    IF result.returncode # 0
    THEN [f EXCEPT !.pc = "run", !.result = result]
    ELSE [f EXCEPT !.pc = "glob", !.result = result]

\* variant: a non-zero exit is reported with the message alone
RunReturned_MessageOnly(f, pr) ==
    LET result == [returncode |-> pr.returncode, stdout |-> pr.stdout, stderr |-> pr.stderr] IN
    IF result.returncode # 0
    THEN Return([f EXCEPT !.result = result], ErrorResult("Generation failed: ", result.stderr))
    ELSE [f EXCEPT !.pc = "glob", !.result = result]

\* lines 147-159: run() returns the CompletedProcess of a child that exited
RunReturned(f, pr) ==
    LET result == [returncode |-> pr.returncode, stdout |-> pr.stdout, stderr |-> pr.stderr] IN
    IF result.returncode # 0
    THEN Return([f EXCEPT !.result = result],
                [error |-> <<"Generation failed: ", result.stderr>>, stdout |-> result.stdout])
    ELSE [f EXCEPT !.pc = "glob", !.result = result]

RunReturns(p) ==
    /\ frame[p].pc = "wait"
    /\ proc[p].state = "exited"
    /\ frame' = [frame EXCEPT ![p] = RunReturned(@, proc[p])]
    /\ UNCHANGED <<dirs, files, proc, OFFLOAD_MODEL, served>>

\* variant: the wait is given up and the child is left alone
KillOnTimeout_NoKill(pr) == pr

\* run() at the deadline: Popen.kill() and wait() on the child it started
KillOnTimeout(pr) == [pr EXCEPT !.state = "killed", !.returncode = -9]

\* lines 160-161: TimeoutExpired
RunTimesOut(p) ==
    /\ frame[p].pc = "wait"
    /\ proc[p].state = "running"
    /\ proc[p].elapsed >= TIMEOUT
    /\ proc' = [proc EXCEPT ![p] = KillOnTimeout(@)]
    /\ frame' = [frame EXCEPT ![p] = Return(@, ErrorResult("Generation timed out (10 minutes)", ""))]
    /\ UNCHANGED <<dirs, files, OFFLOAD_MODEL, served>>

(***************************************************************************)
(* The result (lines 165-182) and the end of the with block.               *)
(***************************************************************************)
\* temp_path.glob("*.mp4")
Glob(fs, dir) == { g \in fs : g.dir = dir /\ g.name[2] = ".mp4" }

\* what a directory holds, whatever its name: names, contents, kinds
Listing(fs, dir) == { [name |-> g.name, data |-> g.data, isdir |-> g.isdir] : g \in { h \in fs : h.dir = dir } }

\* lines 166-174: output_files[0] is the first file in directory order,
\* which is any of them
FindOutput(p) ==
    /\ frame[p].pc = "glob"
    /\ LET output_files == Glob(files, frame[p].temp_dir) IN
       IF output_files = {}
       THEN frame' = [frame EXCEPT ![p] =
                Return([@ EXCEPT !.collected = TRUE, !.listing = Listing(files, frame[p].temp_dir)],
                       [error |-> <<"No output video generated", "">>,
                        stdout |-> frame[p].result.stdout, stderr |-> frame[p].result.stderr])]
       ELSE \E g \in output_files :
                frame' = [frame EXCEPT ![p] =
                    [@ EXCEPT !.pc = "encode", !.output_video = g.name, !.collected = TRUE,
                              !.listing = Listing(files, frame[p].temp_dir)]]
    /\ UNCHANGED <<dirs, files, proc, OFFLOAD_MODEL, served>>

\* encode_file_to_base64: [ok, exc, text]
encode_file_to_base64(fs, path) ==
    LET g == CHOOSE h \in fs : h.dir = path.dir /\ h.name = path.name IN
    IF g.isdir THEN [ok |-> FALSE, exc |-> "IsADirectoryError", text |-> <<>>]
    ELSE [ok |-> TRUE, exc |-> "", text |-> b64encode(g.data)]

\* lines 177-182
EncodeOutput(p) ==
    /\ frame[p].pc = "encode"
    /\ LET r == encode_file_to_base64(files, [dir |-> frame[p].temp_dir,
                                              name |-> frame[p].output_video]) IN
       frame' = [frame EXCEPT ![p] =
           IF r.ok THEN Return(@, [video |-> r.text])
           ELSE Return(@, ErrorResult("Failed to encode output: ", r.exc))]
    /\ UNCHANGED <<dirs, files, proc, OFFLOAD_MODEL, served>>

\* variant: the files are left behind
RemoveTree_KeepsFiles(fs, dir) == fs

\* shutil.rmtree, as TemporaryDirectory.cleanup calls it
RemoveTree(fs, dir) == { g \in fs : g.dir # dir }

\* TemporaryDirectory.__exit__: the directory and all in it are removed,
\* then the pending return or exception leaves handler()
Cleanup(p) ==
    /\ frame[p].pc = "cleanup"
    /\ dirs' = dirs \ {frame[p].temp_dir}
    /\ files' = RemoveTree(files, frame[p].temp_dir)
    /\ frame' = [frame EXCEPT ![p] =
          [@ EXCEPT !.pc = IF frame[p].pending.kind = "raise" THEN "raised" ELSE "returned",
                    !.ret = frame[p].pending.value]]
    /\ UNCHANGED <<proc, OFFLOAD_MODEL, served>>

Next ==
    \E p \in SoloWorkers :
        \/ Invoke(p) \/ Deliver(p) \/ Validate(p) \/ MakeTempDir(p) \/ DetectFormats(p)
        \/ StageImage(p) \/ StageAudio(p) \/ StagePose(p) \/ BuildCommand(p)
        \/ LaunchFails(p) \/ Launch(p)
        \/ ProgramWrites(p) \/ ProgramSpawns(p) \/ DescendantExits(p) \/ Tick(p)
        \/ ProgramExits(p) \/ RunReturns(p) \/ RunTimesOut(p)
        \/ FindOutput(p) \/ EncodeOutput(p) \/ Cleanup(p)

Spec == Init /\ [][Next]_vars

(***************************************************************************)
(* Two workers serving one job each, concurrently, with the default        *)
(* configuration (OFFLOAD_MODEL is "True" unless the environment says      *)
(* otherwise, line 21).  The program starts no process of its own here;   *)
(* its descendants are studied under Spec.                                 *)
(***************************************************************************)
InitConc == Init /\ OFFLOAD_MODEL = TRUE

NextConc ==
    \E p \in Workers :
        \/ InvokeConc(p) \/ Validate(p) \/ MakeTempDir(p) \/ DetectFormats(p)
        \/ StageImage(p) \/ StageAudio(p) \/ StagePose(p) \/ BuildCommand(p)
        \/ LaunchFails(p) \/ Launch(p)
        \/ ProgramWrites(p) \/ Tick(p)
        \/ ProgramExits(p) \/ RunReturns(p) \/ RunTimesOut(p)
        \/ FindOutput(p) \/ EncodeOutput(p) \/ Cleanup(p)

SpecConc == InitConc /\ [][NextConc]_vars

(***************************************************************************)
(* Properties.                                                             *)
(***************************************************************************)
Left(p) == frame[p].pc \in {"returned", "raised"}
Returned(p) == frame[p].pc = "returned"
Keys(r) == DOMAIN r

TimeoutResult == ErrorResult("Generation timed out (10 minutes)", "")

\* C1: no exception propagates out of handler(): no invocation ends raised.
C1_NoUncaughtFault == \A p \in Workers : frame[p].pc # "raised"

\* C2: every result handler() returns is {video} alone, or error with at
\* most stdout and stderr and no video: never both keys, never neither.
C2_ResultShape ==
    \A p \in Workers :
        Returned(p) =>
            \/ Keys(frame[p].ret) = {"video"}
            \/ /\ "error" \in Keys(frame[p].ret)
               /\ Keys(frame[p].ret) \subseteq {"error", "stdout", "stderr"}

C2_Witness ==
    \E p \in Workers : Returned(p) /\ "video" \in Keys(frame[p].ret)

\* C3: once the scratch directory was created, neither it nor any file in
\* it exists when the invocation has ended, by return or by exception.
C3_ScratchRemoved ==
    \A p \in Workers :
        (Left(p) /\ frame[p].temp_dir # NoDir) =>
            /\ frame[p].temp_dir \notin dirs
            /\ \A g \in files : g.dir # frame[p].temp_dir

C3_Witness ==
    \E p \in Workers :
        /\ frame[p].pc = "raised"
        /\ frame[p].temp_dir # NoDir
        /\ frame[p].staged # {}

\* C4: a request whose input is no mapping, or lacks image_base64 or
\* audio_base64, ends in an error result, and its invocation creates no
\* scratch directory, stages no file and starts no process.
InvalidRequest(f) ==
    \/ f.job.shape \in {"noinput", "inputlist"}
    \/ f.job.shape = "ok" /\ (image_b64(f) = Absent \/ audio_b64(f) = Absent)

C4_InvalidRequestTouchesNothing ==
    \A p \in Workers :
        (frame[p].pc # "idle" /\ InvalidRequest(frame[p])) =>
            /\ frame[p].pc \in {"validate", "returned"}
            /\ Returned(p) => "error" \in Keys(frame[p].ret)
            /\ frame[p].temp_dir = NoDir
            /\ frame[p].staged = {}
            /\ frame[p].launches = 0
            /\ proc[p].state = "none"

C4_Witness ==
    \E p \in Workers :
        /\ Returned(p)
        /\ frame[p].job.shape = "ok"
        /\ image_b64(frame[p]) # Absent
        /\ audio_b64(frame[p]) = Absent

\* C5: when the program is still running at the deadline, the handler
\* returns the timeout error and the child it started runs no more; no
\* invocation ends with its child running.
C5_TimeoutKillsChild ==
    \A p \in Workers :
        /\ Left(p) => proc[p].state # "running"
        /\ (Left(p) /\ proc[p].elapsed >= TIMEOUT) =>
              /\ Returned(p)
              /\ frame[p].ret = TimeoutResult
              /\ proc[p].state = "killed"

C5_Witness ==
    \E p \in Workers : Returned(p) /\ proc[p].elapsed >= TIMEOUT /\ proc[p].state = "killed"

\* C6: after the handler has returned on deadline expiry, no process the
\* external program spawned is still running.
C6_TimeoutKillsDescendants ==
    \A p \in Workers :
        (Returned(p) /\ frame[p].ret = TimeoutResult) => proc[p].descendants = 0

\* C7: the directory is searched and a file read only after the program
\* exited with code 0 before the deadline; a video is returned only then.
C7_CollectOnlyAfterSuccess ==
    \A p \in Workers :
        /\ (frame[p].collected \/ frame[p].pc \in {"glob", "encode"}) =>
              /\ proc[p].state = "exited"
              /\ proc[p].returncode = 0
              /\ proc[p].elapsed < TIMEOUT
        /\ (Returned(p) /\ "video" \in Keys(frame[p].ret)) => frame[p].collected

C7_Witness ==
    \E p \in Workers : frame[p].pc = "encode" /\ proc[p].returncode = 0

\* C8: if the program exits 0 and has written no *.mp4, the handler returns
\* the missing-output error with the captured stdout and stderr.
WroteNoMp4(p) == \A n \in proc[p].wrote : n[2] # ".mp4"

C8_MissingOutput ==
    \A p \in Workers :
        (Returned(p) /\ proc[p].state = "exited" /\ proc[p].returncode = 0 /\ WroteNoMp4(p)) =>
            frame[p].ret = [error |-> <<"No output video generated", "">>,
                            stdout |-> proc[p].stdout, stderr |-> proc[p].stderr]

\* C9: a returned video is the base64 text of a file the program wrote in
\* this invocation.
C9_VideoIsProgramOutput ==
    \A p \in Workers :
        (Returned(p) /\ "video" \in Keys(frame[p].ret)) =>
            \E g \in ProgramFiles :
                /\ g.name \in proc[p].wrote
                /\ ~g.isdir
                /\ b64decode(frame[p].ret.video) = [ok |-> TRUE, bytes |-> g.data]

\* the value of a decimal numeral, as the program's argument parser reads it
DigitValue(c) == CHOOSE d \in 0..9 : Digit(d) = c

RECURSIVE StrToNat(_)
StrToNat(s) == IF s = <<>> THEN 0 ELSE 10 * StrToNat(SubSeq(s, 1, Len(s) - 1)) + DigitValue(s[Len(s)])

StrToInt(s) == IF s # <<>> /\ Head(s) = "-" THEN 0 - StrToNat(Tail(s)) ELSE StrToNat(s)

\* C10: the command holds --seed iff the seed is >= 0, once, followed by
\* the decimal numeral of the seed.
SeedPositions(cmd) == { i \in 1..Len(cmd) : cmd[i] = Flag("--seed") }

C10_SeedFlag ==
    \A p \in Workers :
        frame[p].cmd # <<>> =>
            LET cmd == frame[p].cmd
                sd == seed(frame[p])
            IN  /\ (SeedPositions(cmd) # {}) <=> (sd.n >= 0)
                /\ Cardinality(SeedPositions(cmd)) <= 1
                /\ \A i \in SeedPositions(cmd) :
                      /\ i < Len(cmd)
                      /\ cmd[i + 1].t = "str"
                      /\ StrToInt(cmd[i + 1].s) = sd.n
                      /\ Head(cmd[i + 1].s) # "-"

C10_Witness ==
    \E p \in Workers :
        /\ frame[p].cmd # <<>>
        /\ seed(frame[p]) = PyInt(42)
        /\ SeedPositions(frame[p].cmd) # {}

(***************************************************************************)
(* Which payload of a well-formed request fails to decode.  The handler    *)
(* stops at the first failure, so the fields are taken in staging order.   *)
(***************************************************************************)
WellFormed(f) ==
    /\ f.job.shape = "ok"
    /\ image_b64(f).t = "str"
    /\ audio_b64(f).t = "str"

\* the first payload, in staging order, that does not decode
FailingField(f) ==
    IF ~WellFormed(f) THEN "none"
    ELSE IF ~save_base64_to_file(image_b64(f)).ok THEN "image"
    ELSE IF ~save_base64_to_file(audio_b64(f)).ok THEN "audio"
    ELSE IF Truthy(pose_video_b64(f)) /\ ~save_base64_to_file(pose_video_b64(f)).ok THEN "pose"
    ELSE "none"

ImageFails(f) == FailingField(f) = "image"
AudioFails(f) == FailingField(f) = "audio"
PoseFails(f) == FailingField(f) = "pose"

\* C11: the result of a decode failure tells which field failed: of two
\* invocations that returned, one failing on the image and one on the audio
\* (or one of them on the pose video), the results differ.
C11_DecodeErrorNamesField ==
    \A p, q \in Workers :
        (Returned(p) /\ Returned(q)) =>
            /\ (ImageFails(frame[p]) /\ AudioFails(frame[q])) => frame[p].ret # frame[q].ret
            /\ (ImageFails(frame[p]) /\ PoseFails(frame[q])) => frame[p].ret # frame[q].ret
            /\ (AudioFails(frame[p]) /\ PoseFails(frame[q])) => frame[p].ret # frame[q].ret

(***************************************************************************)
(* How the run of the program failed, read off the child's final state.    *)
(***************************************************************************)
TimedOut(p) == Returned(p) /\ proc[p].state = "killed"
ExitedNonZero(p) == Returned(p) /\ proc[p].state = "exited" /\ proc[p].returncode # 0
LaunchFailed(p) == Returned(p) /\ frame[p].cmd # <<>> /\ frame[p].launches = 0

\* C12: a timeout returns the timeout message, a non-zero exit returns
\* "Generation failed: " followed by the captured stderr, and the results of
\* a timeout, a non-zero exit and a failed launch are pairwise different.
C12_ExecutionFailuresDistinct ==
    \A p, q \in Workers :
        /\ TimedOut(p) => frame[p].ret = TimeoutResult
        /\ ExitedNonZero(p) =>
               /\ "error" \in Keys(frame[p].ret)
               /\ frame[p].ret.error = <<"Generation failed: ", proc[p].stderr>>
        /\ (TimedOut(p) /\ ExitedNonZero(q)) => frame[p].ret # frame[q].ret
        /\ (TimedOut(p) /\ LaunchFailed(q)) => frame[p].ret # frame[q].ret
        /\ (ExitedNonZero(p) /\ LaunchFailed(q)) => frame[p].ret # frame[q].ret

\* one launch failed and one program exited non-zero, with the same text
C12_Witness ==
    \E p, q \in Workers :
        /\ LaunchFailed(p)
        /\ ExitedNonZero(q)
        /\ frame[p].ret.error = frame[q].ret.error

\* the entries of a listing that temp_path.glob("*.mp4") matches
Mp4s(listing) == { g \in listing : g.name[2] = ".mp4" }

\* C13: the pick among several MP4-type files is deterministic: two
\* invocations that searched directories holding the same entries, more than
\* one of them MP4-type, return the same result.
C13_DeterministicPick ==
    \A p, q \in Workers :
        ( /\ Returned(p) /\ Returned(q)
          /\ frame[p].collected /\ frame[q].collected
          /\ Cardinality(Mp4s(frame[p].listing)) > 1
          /\ frame[p].listing = frame[q].listing )
        => frame[p].ret = frame[q].ret

(***************************************************************************)
(* The extension a payload is to be staged under: by the media type its    *)
(* data-URI header declares, and the default when it has no header.        *)
(***************************************************************************)
HasHeader(s) == StartsWith(s, DataPrefix)
Declares(s, mime) == StartsWith(s, DataPrefix \o mime \o <<";">>)

ImageTypes ==
    { [mime |-> ImagePrefix \o <<"j", "p", "e", "g">>, ext |-> ".jpg"],
      [mime |-> ImagePrefix \o <<"p", "n", "g">>, ext |-> ".png"],
      [mime |-> ImagePrefix \o <<"w", "e", "b", "p">>, ext |-> ".webp"] }

AudioTypes ==
    { [mime |-> AudioPrefix \o <<"w", "a", "v">>, ext |-> ".wav"],
      [mime |-> AudioPrefix \o <<"m", "p", "3">>, ext |-> ".mp3"],
      [mime |-> AudioPrefix \o <<"m", "p", "e", "g">>, ext |-> ".mp3"] }

\* the extensions the payload s may be staged under, given the table types
\* and the default; every extension when the payload is of no listed kind
ExpectedExts(s, types, default) ==
    IF ~HasHeader(s) THEN {default}
    ELSE IF \E t \in types : Declares(s, t.mime)
         THEN { t.ext : t \in { u \in types : Declares(s, u.mime) } }
         ELSE { t.ext : t \in ImageTypes \cup AudioTypes }

StagedExts(f, types) ==
    { n[2] : n \in { m \in f.staged : m[1] = "input" /\ m[2] \in { t.ext : t \in types } } }

\* C14: a staged image or audio file carries the extension of the media type
\* its data-URI header declares, and .jpg or .wav when the payload has no
\* header.
C14_ExtensionMatchesType ==
    \A p \in Workers :
        /\ StagedExts(frame[p], ImageTypes) \subseteq
               ExpectedExts(image_b64(frame[p]).s, ImageTypes, ".jpg")
        /\ StagedExts(frame[p], AudioTypes) \subseteq
               ExpectedExts(audio_b64(frame[p]).s, AudioTypes, ".wav")

(***************************************************************************)
(* Scratch directories of concurrent invocations.                          *)
(***************************************************************************)
\* inside the with block: the directory is created and not yet removed
Holding(p) ==
    frame[p].pc \in {"detect", "save_image", "save_audio", "save_pose", "build",
                     "run", "wait", "glob", "encode", "cleanup"}

FilesIn(fs, dir) == { g \in fs : g.dir = dir }

\* no two invocations hold the same directory
DisjointDirs ==
    \A p, q \in Workers :
        (p # q /\ Holding(p) /\ Holding(q)) => frame[p].temp_dir # frame[q].temp_dir

\* a step that creates a directory creates one that did not exist, that
\* holds no file and that no other invocation holds
CreatesFresh ==
    \A p \in Workers :
        (frame[p].pc = "mkdtemp" /\ frame'[p].pc = "detect") =>
            /\ frame'[p].temp_dir \notin dirs
            /\ FilesIn(files', frame'[p].temp_dir) = {}
            /\ \A q \in Workers \ {p} : Holding(q) => frame[q].temp_dir # frame'[p].temp_dir

\* a step that writes or deletes a file is a step of the one invocation
\* holding the directory of that file
TouchesOwnFilesOnly ==
    \A g \in (files' \ files) \cup (files \ files') :
        \E p \in Workers :
            /\ Holding(p)
            /\ frame[p].temp_dir = g.dir
            /\ frame'[p] # frame[p] \/ proc'[p] # proc[p]
            /\ \A q \in Workers \ {p} : frame'[q] = frame[q] /\ proc'[q] = proc[q]

\* C15: concurrent invocations hold different scratch directories, each is
\* created new and empty, and every file written or deleted lies in the
\* directory of the invocation doing it.
C15_OwnScratchDirectory ==
    []DisjointDirs /\ [][CreatesFresh /\ TouchesOwnFilesOnly]_vars

\* two invocations inside their with blocks, both with files staged
C15_Witness ==
    /\ Holding("w1") /\ Holding("w2")
    /\ FilesIn(files, frame["w1"].temp_dir) # {}
    /\ FilesIn(files, frame["w2"].temp_dir) # {}

\* C16: within one invocation the program is started at most once, whatever
\* the outcome of the run.
C16_StartedAtMostOnce == \A p \in Workers : frame[p].launches <= 1

\* an invocation that started the program once and returned a failure
C16_Witness ==
    \E p \in Workers :
        /\ Returned(p)
        /\ frame[p].launches = 1
        /\ "error" \in Keys(frame[p].ret)

(***************************************************************************)
(* Reading a command back: what follows a flag, and whether it is there.   *)
(***************************************************************************)
HasFlag(cmd, name) == \E i \in 1..Len(cmd) : cmd[i] = Flag(name)
Follows(cmd, name, v) == \E i \in 1..(Len(cmd) - 1) : cmd[i] = Flag(name) /\ cmd[i + 1] = v
FlagCount(cmd, name) == Cardinality({ i \in 1..Len(cmd) : cmd[i] = Flag(name) })

StagedPath(f, name) == Str(<<"/tmp/", f.temp_dir, "/">> \o name)
PoseName == <<"pose", ".mp4">>

\* C17: the command handed to subprocess.run holds the task, the size, the
\* checkpoint directory, the staged image and audio paths, the output
\* directory, the step count and the cfg scale; --prompt and --negative_prompt are there exactly when
\* the text is not empty, --offload_model exactly when the configuration
\* flag is on, --pose_video exactly when a pose video was staged, and no
\* pose file is staged for a request without one.
C17_CommandContents ==
    \A p \in Workers :
        LET f == frame[p]
            req == f.job.input
            cmd == f.cmd
        IN  f.pc = "run" =>
            /\ Follows(cmd, "--task", Str(<<"s2v-14B">>))
            /\ Follows(cmd, "--size", IF req.size = Absent THEN Str(<<"832*480">>) ELSE req.size)
            /\ Follows(cmd, "--ckpt_dir", Str(<<"/models/Wan2.2-S2V-14B">>))
            /\ \E e \in StagedExts(f, ImageTypes) :
                   Follows(cmd, "--image", StagedPath(f, <<"input", e>>))
            /\ \E e \in StagedExts(f, AudioTypes) :
                   Follows(cmd, "--audio", StagedPath(f, <<"input", e>>))
            /\ Follows(cmd, "--output_dir", Str(<<"/tmp/", f.temp_dir>>))
            /\ \E i \in 1..(Len(cmd) - 1) :
                   /\ cmd[i] = Flag("--sample_steps")
                   /\ StrToInt(cmd[i + 1].s) = (IF req.steps = Absent THEN 30 ELSE req.steps.n)
            /\ Follows(cmd, "--cfg_scale", Str(<<"5", ".", "0">>))
            /\ HasFlag(cmd, "--prompt") <=> req.prompt \notin {Absent, Str(<<>>)}
            /\ HasFlag(cmd, "--prompt") => Follows(cmd, "--prompt", req.prompt)
            /\ HasFlag(cmd, "--negative_prompt") <=> req.negative_prompt # Str(<<>>)
            /\ HasFlag(cmd, "--offload_model") <=> OFFLOAD_MODEL
            /\ HasFlag(cmd, "--pose_video") <=> PoseName \in f.staged
            /\ HasFlag(cmd, "--pose_video") => Follows(cmd, "--pose_video", StagedPath(f, PoseName))
            /\ req.pose_video_base64 \in {Absent, Str(<<>>)} => PoseName \notin f.staged
            /\ \A name \in {"--task", "--size", "--ckpt_dir", "--image", "--audio",
                              "--output_dir", "--sample_steps", "--cfg_scale"} :
                   FlagCount(cmd, name) = 1

\* a command with a prompt and a pose video, without negative prompt and
\* without offloading
C17_Witness ==
    \E p \in Workers :
        /\ frame[p].pc = "run"
        /\ HasFlag(frame[p].cmd, "--prompt")
        /\ HasFlag(frame[p].cmd, "--pose_video")
        /\ ~HasFlag(frame[p].cmd, "--negative_prompt")
        /\ ~HasFlag(frame[p].cmd, "--offload_model")

(***************************************************************************)
(* Staging before the program starts.                                      *)
(***************************************************************************)
ImageStaged(f) == StagedExts(f, ImageTypes) # {}
AudioStaged(f) == StagedExts(f, AudioTypes) # {}
PoseStaged(f) == PoseName \in f.staged
PoseSupplied(f) == f.job.input.pose_video_base64 \notin {Absent, Str(<<>>)}

\* C18: the image is staged before the audio and the audio before the pose
\* video; an invocation that started the program had staged the image, the
\* audio and, when one was supplied, the pose video, and while the program
\* runs these files are in the directory; an invocation with a payload that
\* does not decode never starts the program.
C18_StagedBeforeStart ==
    \A p \in Workers :
        LET f == frame[p] IN
        /\ AudioStaged(f) => ImageStaged(f)
        /\ PoseStaged(f) => AudioStaged(f)
        /\ f.launches > 0 =>
               /\ ImageStaged(f) /\ AudioStaged(f)
               /\ PoseSupplied(f) => PoseStaged(f)
        /\ f.pc = "wait" =>
               \A n \in f.staged : \E g \in FilesIn(files, f.temp_dir) : g.name = n /\ ~g.isdir
        /\ (f.launches > 0 \/ f.pc \in {"build", "run", "wait", "glob", "encode"}) =>
               FailingField(f) = "none"

\* the program runs after image, audio and pose video were staged
C18_Witness ==
    \E p \in Workers :
        /\ frame[p].pc = "wait"
        /\ frame[p].launches = 1
        /\ PoseSupplied(frame[p])
        /\ Cardinality(frame[p].staged) = 3

(***************************************************************************)
(* The staged files next to each other.                                    *)
(***************************************************************************)
\* the directory of f holds a file of one of the extensions with this content
HoldsInput(f, types, data) ==
    \E g \in FilesIn(files, f.temp_dir) :
        /\ g.name[1] = "input"
        /\ g.name[2] \in { t.ext : t \in types }
        /\ ~g.isdir
        /\ g.data = data

\* C19: the staged image, audio and pose video are different files of the
\* scratch directory: after each save the directory holds one file more,
\* and until the program starts every staged file still has the content
\* decoded from its own payload.
C19_StagedPathsDistinct ==
    \A p \in Workers :
        LET f == frame[p]
            mine == FilesIn(files, f.temp_dir)
        IN  f.pc \in {"save_audio", "save_pose", "build", "run"} =>
            /\ image_path(f) # audio_path(f)
            /\ image_path(f) # PosePath(f)
            /\ audio_path(f) # PosePath(f)
            /\ { image_path(f).dir, audio_path(f).dir, PosePath(f).dir } = { f.temp_dir }
            /\ Cardinality(mine) = (IF f.pc = "save_audio" THEN 1
                                    ELSE IF PoseStaged(f) THEN 3 ELSE 2)
            /\ { g.name : g \in mine } = f.staged
            /\ HoldsInput(f, ImageTypes, save_base64_to_file(image_b64(f)).decoded)
            /\ f.pc # "save_audio" =>
                   HoldsInput(f, AudioTypes, save_base64_to_file(audio_b64(f)).decoded)
            /\ PoseStaged(f) =>
                   \E g \in mine : /\ g.name = PoseName
                                    /\ g.data = save_base64_to_file(pose_video_b64(f)).decoded

\* a .webp image, an .mp3 audio and a pose video staged side by side
C19_Witness ==
    \E p \in Workers :
        /\ frame[p].pc = "run"
        /\ frame[p].staged = { <<"input", ".webp">>, <<"input", ".mp3">>, PoseName }
        /\ Cardinality(FilesIn(files, frame[p].temp_dir)) = 3

====
